---- MODULE Spec2Model ----
(***************************************************************************)
(* Voting session engine of anonymous-voting (src/main.py).                *)
(*                                                                         *)
(* The program is a single asyncio event loop: a handler runs without      *)
(* interruption until it suspends in an await.  The only awaits of the     *)
(* engine are the send_text calls inside ConnectionManager.broadcast_to_   *)
(* type and the asyncio.sleep of auto_end_voting.  Every action below is   *)
(* one such uninterrupted run: a handler's body up to and including the    *)
(* next send, or the resumption of a suspended handler up to the next      *)
(* send or to its return.                                                  *)
(*                                                                         *)
(* Choices are written "for", "against", "abstain" for the source's        *)
(* "за", "против", "воздержался"; error details are written as the         *)
(* spec's error names for the source's Russian detail strings.  Fields     *)
(* that are written and never read by the engine (created_at, voted_at,    *)
(* start_time, the vote's timestamp) are left out.  Time is in seconds.    *)
(***************************************************************************)
EXTENDS Integers, Sequences, FiniteSets, TLC

VARIABLES
    sessions,            \* storage.sessions: session_id -> [status]
    members,             \* storage.members: session_id -> list of members
    tokens,              \* storage.tokens: token -> token_data (token k is the k-th issued)
    votes,               \* storage.votes: session_id -> list of vote records
    active_voting,       \* storage.active_voting: session_id -> voting_info
    active_connections,  \* manager.active_connections: group -> list of websockets
    wsState,             \* each websocket: "new", "open", "broken" (sends raise), "gone"
    inbox,               \* what each websocket was sent, in order
    timers,              \* auto_end_voting tasks sleeping: [n, sid, wake]
    now,                 \* time.time()
    calls,               \* handlers suspended inside a broadcast
    ret,                 \* the last response returned to a client
    published,           \* history: group -> the messages broadcast_to_type was called with
    accepted             \* history: token -> number of submit_vote calls that returned success

vars == <<sessions, members, tokens, votes, active_voting, active_connections,
          wsState, inbox, timers, now, calls, ret, published, accepted>>

storageVars == <<sessions, members, tokens, votes, active_voting>>

----------------------------------------------------------------------------
(* Bounds of the model *)

\* Spec: tokens issued, messages published to a group, handlers suspended at once.
MaxTokens == 1
MaxPublished == 2
MaxInFlight == 1
\* SpecSeq
SeqMaxTokens == 3
SeqMaxPublished == 3
\* SpecExample
ExMaxTokens == 3
ExMaxPublished == 3
\* SpecLive
LiveMaxTokens == 2
LiveMaxPublished == 3
LiveMaxInFlight == 1
\* The clock runs over the instants 0, ExpireBuffer, ..., MaxTicks * ExpireBuffer.
ViewMaxTokens == 1
ViewMaxPublished == 2
ViewMaxInFlight == 1

FaultMaxTokens == 1
FaultMaxPublished == 2
FaultMaxInFlight == 2

IssueMaxTokens == 3
IssueMaxPublished == 3

DurMaxTokens == 2
DurMaxPublished == 3

ChurnMaxTokens == 1
ChurnMaxPublished == 2
ChurnMaxInFlight == 1

OrderMaxTokens == 1
OrderMaxPublished == 3
OrderMaxInFlight == 2

StmtMaxTokens == 2
StmtMaxPublished == 3
StmtMaxInFlight == 1

PairMaxTokens == 2
PairMaxPublished == 4
PairMaxInFlight == 0

MaxTicks == 3

(* Program constants *)

ExpireBuffer == 300
SecondsPerMinute == 60
MIN_VOTING_DURATION_MINUTES == 1
MAX_VOTING_DURATION_MINUTES == 30

SessionIds == {"s1"}

\* The ids of two meetings held side by side.
PairSessionIds == {"s1", "s2"}
Groups == {"admin", "projector"}
Conns == {"w1", "w2"}
Console == {"w1"}
Choices == <<"for", "against", "abstain">>
ChoiceInputs == {"for", "against", "abstain", "other"}
Member(k) == [name |-> k, contact |-> k]
RosterOfThree == <<Member(1), Member(2), Member(3)>>
Rosters == {<< >>, <<Member(1)>>, RosterOfThree}
SmallRosters == {<<Member(1)>>}
DefaultVoting ==
    [presenter_name |-> "p1", topic_title |-> "t1", topic_description |-> "d1",
     duration_minutes |-> 5]
VotingInputs ==
    {DefaultVoting,
     [presenter_name |-> "p2", topic_title |-> "t2", topic_description |-> "d2",
      duration_minutes |-> 10]}
DurationInputs ==
    {[DefaultVoting EXCEPT !.duration_minutes = d] : d \in {-1, 0, 5}}
Instants == {k * ExpireBuffer : k \in 0..MaxTicks}
Horizon == MaxTicks * ExpireBuffer
UnknownToken == 0

----------------------------------------------------------------------------
(* Pure helpers *)

\* hash_token: sha256 of the token, taken to be collision free on the issued tokens.
hash_token(token) == 1000003 * token + 17

ZeroCount == [for |-> 0, against |-> 0, abstain |-> 0]

\* The counting loop "for vote in ...: votes_count[vote["choice"]] += 1".
RECURSIVE CountVotes(_, _)
CountVotes(ledger, acc) ==
    IF ledger = << >> THEN acc
    ELSE CountVotes(Tail(ledger), [acc EXCEPT ![Head(ledger).choice] = @ + 1])

\* An end_voting that counts the unused tokens of every session.
UnusedTokensOfAll(toks, sid) ==
    Cardinality({t \in DOMAIN toks : ~toks[t].used})

\* The loop of end_voting over storage.tokens counting the unused tokens of a session.
UnusedTokens(toks, sid) ==
    Cardinality({t \in DOMAIN toks : toks[t].session_id = sid /\ ~toks[t].used})

TotalVotes(vc) == vc.for + vc.against + vc.abstain

\* A response, with the request it answers: the operation, the session, and for
\* submit_vote the token and the choice presented.
NoResponse ==
    [op |-> "none", sid |-> "", token |-> 0, choice |-> "", code |-> 0, detail |-> "",
     results |-> ZeroCount, tokens |-> << >>]

Response(op, sid, token, choice, code, detail, results, toks) ==
    [op |-> op, sid |-> sid, token |-> token, choice |-> choice, code |-> code,
     detail |-> detail, results |-> results, tokens |-> toks]

Message(type, sid, count, n, voting) ==
    [type |-> type, sid |-> sid, votes |-> count, n |-> n, voting |-> voting]

NoVoting ==
    [presenter_name |-> "", topic_title |-> "", topic_description |-> "",
     end_time |-> 0, duration_minutes |-> 0]

\* A dict with no key.
EmptyDict == [k \in {} |-> 0]

Remove(lst, disconnected) == SelectSeq(lst, LAMBDA c : c \notin disconnected)

----------------------------------------------------------------------------
Init ==
    /\ sessions = EmptyDict
    /\ members = EmptyDict
    /\ tokens = << >>
    /\ votes = EmptyDict
    /\ active_voting = EmptyDict
    /\ active_connections = [g \in Groups |-> << >>]
    /\ wsState = [w \in Conns |-> "new"]
    /\ inbox = [w \in Conns |-> << >>]
    /\ timers = {}
    /\ now = 0
    /\ calls = {}
    /\ ret = NoResponse
    /\ published = [g \in Groups |-> << >>]
    /\ accepted = << >>

----------------------------------------------------------------------------
(* ConnectionManager.broadcast_to_type, and a handler's run to its next await *)

\* The loop "for connection in self.active_connections[connection_type]" keeps an
\* index into the live list: f.idx iterations were started.  A send to an open
\* websocket hands it the message, a send to a broken one raises and the websocket
\* is noted in disconnected; either way the coroutine is suspended in that send.
\* When the index has passed the end of the list the disconnected websockets are
\* removed and the handler goes on to its next broadcast without suspending.
\* Two fields of the frame only record what the loop did: at_start is the list as
\* the loop found it, sent the websockets it has handed the message to.
RECURSIVE Run(_, _, _, _)
Run(f, ac, ib, pub) ==
    IF f.pend = << >>
    THEN [f |-> f, ac |-> ac, ib |-> ib, pub |-> pub, done |-> TRUE]
    ELSE LET b == Head(f.pend)
             lst == ac[b.group]
             pub1 == IF f.idx = 0 THEN [pub EXCEPT ![b.group] = Append(@, b.msg)] ELSE pub
             f1 == IF f.idx = 0 THEN [f EXCEPT !.at_start = lst, !.sent = << >>] ELSE f
         IN  IF f.idx < Len(lst)
             THEN LET c == lst[f.idx + 1]
                  IN  IF wsState[c] = "open"
                      THEN [f |-> [f1 EXCEPT !.idx = @ + 1, !.sent = Append(@, c)],
                            ac |-> ac,
                            ib |-> [ib EXCEPT ![c] = Append(@, b.msg)],
                            pub |-> pub1, done |-> FALSE]
                      ELSE [f |-> [f1 EXCEPT !.idx = @ + 1, !.disc = @ \cup {c}],
                            ac |-> ac, ib |-> ib, pub |-> pub1, done |-> FALSE]
             ELSE Run([f EXCEPT !.pend = Tail(@), !.idx = 0, !.disc = {},
                                !.at_start = << >>, !.sent = << >>],
                      [ac EXCEPT ![b.group] = Remove(@, f.disc)], ib, pub1)

Frame(n, op, sid, pend, resp, dur) ==
    [n |-> n, op |-> op, sid |-> sid, pend |-> pend, idx |-> 0, disc |-> {},
     resp |-> resp, dur |-> dur, at_start |-> << >>, sent |-> << >>]

\* What a handler does after its last broadcast: start_voting creates the
\* auto_end_voting task (line 189), and every request handler returns its response.
Return(f, tm, acc) ==
    /\ timers' = IF f.op = "start_voting"
                 THEN tm \cup {[n |-> f.n, sid |-> f.sid,
                                wake |-> now + f.dur * SecondsPerMinute]}
                 ELSE tm
    /\ ret' = IF f.op = "auto_end_voting" THEN ret ELSE f.resp
    /\ accepted' = IF f.op = "submit_vote"
                   THEN [acc EXCEPT ![f.resp.token] = @ + 1]
                   ELSE acc

\* Handler f runs on from where it is: others are the other suspended handlers,
\* tm the sleeping timers and acc the success counts as this step starts.
Continue(f, others, tm, acc) ==
    LET r == Run(f, active_connections, inbox, published)
    IN  /\ active_connections' = r.ac
        /\ inbox' = r.ib
        /\ published' = r.pub
        /\ IF r.done
           THEN calls' = others /\ Return(f, tm, acc)
           ELSE /\ calls' = others \cup {r.f}
                /\ timers' = tm
                /\ accepted' = acc
                /\ ret' = ret

\* A handle for a new coroutine, unlike that of every suspended handler and timer.
NewId ==
    LET used == {f.n : f \in calls} \cup {tm.n : tm \in timers}
    IN  CHOOSE k \in 1..(Cardinality(used) + 1) :
            k \notin used /\ \A j \in 1..(k - 1) : j \in used

\* A request that fails with an HTTPException before changing anything.
Reject(op, sid, token, choice, code, detail) ==
    /\ ret' = Response(op, sid, token, choice, code, detail, ZeroCount, << >>)
    /\ UNCHANGED <<storageVars, active_connections, inbox, timers, calls,
                   published, accepted>>

----------------------------------------------------------------------------
(* create_session *)

\* generate_session_id: a uuid4, always fresh; the model takes the first unused id
\* of the ids it has.
generate_session_id(ids) == CHOOSE sid \in ids \ DOMAIN sessions : TRUE

\* create_session in a model with the given session ids.
CreateSessionIn(ids, roster) ==
    /\ ids \ DOMAIN sessions # {}
    /\ LET session_id == generate_session_id(ids)
       IN  /\ sessions' = (session_id :> [id |-> session_id, status |-> "created"]) @@ sessions
           /\ members' = (session_id :> roster) @@ members
           /\ votes' = (session_id :> << >>) @@ votes
           /\ ret' = Response("create_session", session_id, 0, "", 200, "",
                              ZeroCount, << >>)
    /\ UNCHANGED <<tokens, active_voting, active_connections, wsState, inbox, timers,
                   now, calls, published, accepted>>

CreateSession(roster) == CreateSessionIn(SessionIds, roster)

----------------------------------------------------------------------------
(* start_voting *)

\* A start_voting whose tokens expire with the window, without the buffer.
NewTokensNoBuffer(session_id, voting) ==
    [k \in 1..Len(members[session_id]) |->
        [session_id |-> session_id,
         member_name |-> members[session_id][k].name,
         used |-> FALSE,
         expires_at |-> now + voting.duration_minutes * SecondsPerMinute]]

\* The token_data of the tokens minted for the members of a session (lines 138-146).
NewTokens(session_id, voting) ==
    [k \in 1..Len(members[session_id]) |->
        [session_id |-> session_id,
         member_name |-> members[session_id][k].name,
         used |-> FALSE,
         expires_at |-> now + voting.duration_minutes * SecondsPerMinute + ExpireBuffer]]

\* The voting_info of a window that opens now (lines 156-165).
VotingInfo(voting) ==
    [presenter_name |-> voting.presenter_name,
     topic_title |-> voting.topic_title,
     topic_description |-> voting.topic_description,
     end_time |-> now + voting.duration_minutes * SecondsPerMinute,
     duration_minutes |-> voting.duration_minutes,
     status |-> "active"]

\* A start_voting that leaves the status of the session as it was.
StartVotingBodyStatusKept(session_id, voting) ==
    /\ tokens' = tokens \o NewTokens(session_id, voting)
    /\ active_voting' = (session_id :> VotingInfo(voting)) @@ active_voting
    /\ sessions' = sessions
    /\ UNCHANGED <<members, votes>>

\* What start_voting does to the storage of an existing session (lines 136-168).
StartVotingBody(session_id, voting) ==
    /\ tokens' = tokens \o NewTokens(session_id, voting)
    /\ active_voting' = (session_id :> VotingInfo(voting)) @@ active_voting
    /\ sessions' = [sessions EXCEPT ![session_id].status = "voting"]
    /\ UNCHANGED <<members, votes>>

StartVoting(session_id, voting) ==
    /\ now + voting.duration_minutes * SecondsPerMinute <= Horizon
    /\ UNCHANGED <<wsState, now>>
    /\ IF session_id \notin DOMAIN sessions
       THEN Reject("start_voting", session_id, 0, "", 404, "NotFound")
       ELSE LET first == Len(tokens)
                issued == [k \in 1..Len(members[session_id]) |->
                              [member |-> members[session_id][k].name,
                               contact |-> members[session_id][k].contact,
                               token |-> first + k]]
                info == VotingInfo(voting)
                toProjector ==
                    Message("voting_started", session_id, ZeroCount, 0,
                            [presenter_name |-> info.presenter_name,
                             topic_title |-> info.topic_title,
                             topic_description |-> info.topic_description,
                             end_time |-> info.end_time,
                             duration_minutes |-> info.duration_minutes])
                toAdmin ==
                    Message("voting_started", session_id, ZeroCount, Len(issued), NoVoting)
                resp == Response("start_voting", session_id, 0, "", 200, "",
                                 ZeroCount, issued)
            IN  /\ StartVotingBody(session_id, voting)
                /\ Continue(Frame(NewId, "start_voting", session_id,
                                  <<[group |-> "projector", msg |-> toProjector],
                                    [group |-> "admin", msg |-> toAdmin]>>,
                                  resp, voting.duration_minutes),
                            calls, timers,
                            accepted \o [k \in 1..Len(issued) |-> 0])

----------------------------------------------------------------------------
(* end_voting and auto_end_voting *)

\* An end_voting that forgets the members who did not vote.
FinalCountCastOnly(session_id) ==
    CountVotes(IF session_id \in DOMAIN votes THEN votes[session_id] ELSE << >>, ZeroCount)

\* votes_count as end_voting computes it (lines 211-223).
FinalCount(session_id) ==
    LET votes_count == CountVotes(IF session_id \in DOMAIN votes
                                  THEN votes[session_id] ELSE << >>, ZeroCount)
    IN  [votes_count EXCEPT !.abstain = @ + UnusedTokens(tokens, session_id)]

\* The voting_info after lines 226-227.
Completed(info, votes_count) ==
    [k \in DOMAIN info \cup {"results"} |->
        CASE k = "results" -> votes_count
          [] k = "status" -> "completed"
          [] OTHER -> info[k]]

\* The guard of end_voting (line 207).
EndVotingAllowed(session_id) == session_id \in DOMAIN active_voting

\* Lines 210-239 of end_voting, run by handler n for the request or the timer op.
EndVotingBody(n, op, session_id, tm) ==
    LET votes_count == FinalCount(session_id)
        result_message == Message("voting_ended", session_id, votes_count,
                                  TotalVotes(votes_count), NoVoting)
        resp == Response(op, session_id, 0, "", 200, "", votes_count, << >>)
    IN  /\ active_voting' = [active_voting EXCEPT
                                ![session_id] = Completed(@, votes_count)]
        /\ sessions' = [sessions EXCEPT ![session_id].status = "completed"]
        /\ UNCHANGED <<members, tokens, votes>>
        /\ Continue(Frame(n, op, session_id,
                          <<[group |-> "projector", msg |-> result_message],
                            [group |-> "admin", msg |-> result_message]>>,
                          resp, 0),
                    calls, tm, accepted)

EndVoting(session_id) ==
    /\ UNCHANGED <<wsState, now>>
    /\ IF ~EndVotingAllowed(session_id)
       THEN Reject("end_voting", session_id, 0, "", 404, "NotFound")
       ELSE EndVotingBody(NewId, "end_voting", session_id, timers)

\* A timer that never finds its window active.
StillActiveNever(session_id) == FALSE

\* The test of auto_end_voting when its sleep is over (line 202).
StillActive(session_id) ==
    /\ session_id \in DOMAIN active_voting
    /\ active_voting[session_id].status = "active"

AutoEndVoting(tm) ==
    /\ tm \in timers
    /\ now >= tm.wake
    /\ UNCHANGED <<wsState, now>>
    /\ IF StillActive(tm.sid)
       THEN EndVotingBody(tm.n, "auto_end_voting", tm.sid, timers \ {tm})
       ELSE /\ timers' = timers \ {tm}
            /\ UNCHANGED <<storageVars, active_connections, inbox, calls, ret,
                           published, accepted>>

----------------------------------------------------------------------------
(* submit_vote *)

\* A submit_vote that does not look at the used flag.
TokenUsedIgnored(token_data) == FALSE

\* The test of line 254.
TokenUsed(token_data) == token_data.used

\* A submit_vote that leaves expiry to the timer of the window.
TokenExpiredNever(token_data) == FALSE

\* The test of line 258.
TokenExpired(token_data) == now > token_data.expires_at

\* A submit_vote that only asks whether the session ever had a window.
VotingNotActiveNoStatus(session_id) == session_id \notin DOMAIN active_voting

\* The test of line 263.
VotingNotActive(session_id) ==
    \/ session_id \notin DOMAIN active_voting
    \/ active_voting[session_id].status # "active"

\* A submit_vote that takes only one of the three choices.
ValidChoiceOnlyFor(choice) == choice = "for"

\* The test of line 267.
ValidChoice(choice) == \E i \in DOMAIN Choices : Choices[i] = choice

\* The vote_record of lines 271-276.
VoteRecord(session_id, token, choice) ==
    [session_id |-> session_id, choice |-> choice, token_hash |-> hash_token(token)]

\* Lines 278-281: the vote is appended to the ledger of the session.
RecordVote(ledger, session_id, vote_record) ==
    IF session_id \in DOMAIN ledger
    THEN [ledger EXCEPT ![session_id] = Append(@, vote_record)]
    ELSE (session_id :> <<vote_record>>) @@ ledger

\* A submit_vote that forgets to mark the token.
MarkUsedNot(toks, token) == toks

\* Line 284: the token is marked as used.
MarkUsed(toks, token) == [toks EXCEPT ![token].used = TRUE]

\* The checks of lines 248-268, in the order of the source: the error, or "" for none.
SubmitError(token, choice) ==
    IF token \notin DOMAIN tokens THEN "NotFound"
    ELSE IF TokenUsed(tokens[token]) THEN "AlreadyUsed"
    ELSE IF TokenExpired(tokens[token]) THEN "Expired"
    ELSE IF VotingNotActive(tokens[token].session_id) THEN "InvalidState"
    ELSE IF ~ValidChoice(choice) THEN "InvalidChoice"
    ELSE ""

\* A submit_vote that marks the token before it checks the window and the choice.
SubmitRejectedTokenBurnt(token, choice, error) ==
    /\ ret' = Response("submit_vote",
                       IF token \in DOMAIN tokens THEN tokens[token].session_id ELSE "",
                       token, choice, IF error = "NotFound" THEN 404 ELSE 400, error,
                       ZeroCount, << >>)
    /\ tokens' = IF error \in {"InvalidState", "InvalidChoice"}
                 THEN [tokens EXCEPT ![token].used = TRUE]
                 ELSE tokens
    /\ UNCHANGED <<sessions, members, votes, active_voting, active_connections, inbox,
                   timers, calls, published, accepted>>

\* The raise of the failing check: nothing was written before it.
SubmitRejected(token, choice, error) ==
    Reject("submit_vote",
           IF token \in DOMAIN tokens THEN tokens[token].session_id ELSE "",
           token, choice, IF error = "NotFound" THEN 404 ELSE 400, error)

\* A submit_vote that announces the vote the way end_voting announces the results.
VoteReceivedToAll(session_id, current_votes, total_members) ==
    LET msg == Message("vote_received", session_id, current_votes, total_members,
                       NoVoting)
    IN  <<[group |-> "projector", msg |-> msg], [group |-> "admin", msg |-> msg]>>

\* The broadcast of lines 293-298.
VoteReceived(session_id, current_votes, total_members) ==
    <<[group |-> "admin",
       msg |-> Message("vote_received", session_id, current_votes, total_members,
                       NoVoting)]>>

SubmitVote(token, choice) ==
    /\ UNCHANGED <<wsState, now>>
    /\ LET error == SubmitError(token, choice)
       IN  IF error # ""
           THEN SubmitRejected(token, choice, error)
           ELSE LET session_id == tokens[token].session_id
                    ledger == RecordVote(votes, session_id,
                                         VoteRecord(session_id, token, choice))
                    current_votes == CountVotes(ledger[session_id], ZeroCount)
                    total_members == IF session_id \in DOMAIN members
                                     THEN Len(members[session_id]) ELSE 0
                    resp == Response("submit_vote", session_id, token, choice, 200, "",
                                     ZeroCount, << >>)
                IN  /\ votes' = ledger
                    /\ tokens' = MarkUsed(tokens, token)
                    /\ UNCHANGED <<sessions, members, active_voting>>
                    /\ Continue(Frame(NewId, "submit_vote", session_id,
                                      VoteReceived(session_id, current_votes,
                                                   total_members),
                                      resp, 0),
                                calls, timers, accepted)

----------------------------------------------------------------------------
(* Suspended handlers, websockets, the clock *)

\* The event loop resumes a handler suspended in a send.
Resume(f) ==
    /\ f \in calls
    /\ Continue(f, calls \ {f}, timers, accepted)
    /\ UNCHANGED <<storageVars, wsState, now>>

\* websocket_admin / websocket_projector up to the receive loop: ConnectionManager.connect.
Connect(websocket, connection_type) ==
    /\ wsState[websocket] = "new"
    /\ wsState' = [wsState EXCEPT ![websocket] = "open"]
    /\ active_connections' =
           [active_connections EXCEPT ![connection_type] = Append(@, websocket)]
    /\ UNCHANGED <<storageVars, inbox, timers, now, calls, ret, published, accepted>>

\* The peer goes away: from now on a send to the websocket raises.
Break(websocket) ==
    /\ wsState[websocket] = "open"
    /\ wsState' = [wsState EXCEPT ![websocket] = "broken"]
    /\ UNCHANGED <<storageVars, active_connections, inbox, timers, now, calls,
                   ret, published, accepted>>

\* receive_text raises WebSocketDisconnect: ConnectionManager.disconnect.
Disconnect(websocket) ==
    /\ wsState[websocket] \in {"open", "broken"}
    /\ wsState' = [wsState EXCEPT ![websocket] = "gone"]
    /\ active_connections' =
           [g \in Groups |-> Remove(active_connections[g], {websocket})]
    /\ UNCHANGED <<storageVars, inbox, timers, now, calls, ret, published, accepted>>

\* Time passes.  The model keeps the deadline of every timer within its horizon:
\* start_voting is taken while now + duration is (see StartVoting), and the clock
\* stays so while a start_voting has yet to create its timer.
Tick ==
    /\ \E t \in Instants :
           /\ t > now
           /\ \A f \in calls : f.op = "start_voting" =>
                  t + f.dur * SecondsPerMinute <= Horizon
           /\ now' = t
    /\ UNCHANGED <<storageVars, active_connections, wsState, inbox, timers, calls,
                   ret, published, accepted>>

----------------------------------------------------------------------------
(* Next-state relations: the requests with inputs from the given sets, the timers
   and the clock; and the websockets of the given set *)

\* The model follows a step only to a state within these bounds: so many tokens
\* issued, so many messages published to a group, so many handlers suspended.
Within(maxTokens, maxPublished, maxInFlight) ==
    /\ Len(tokens') <= maxTokens
    /\ \A g \in Groups : Len(published'[g]) <= maxPublished
    /\ Cardinality(calls') <= maxInFlight

Engine(rosters, votings, choices, maxTokens, maxPublished, maxInFlight) ==
    \/ \E roster \in rosters : CreateSession(roster)
    \/ \E session_id \in SessionIds, voting \in votings :
           /\ StartVoting(session_id, voting)
           /\ Within(maxTokens, maxPublished, maxInFlight)
    \/ \E session_id \in SessionIds :
           /\ EndVoting(session_id)
           /\ Within(maxTokens, maxPublished, maxInFlight)
    \/ \E tm \in timers : AutoEndVoting(tm)
    \/ \E token \in DOMAIN tokens \cup {UnknownToken}, choice \in choices :
           /\ SubmitVote(token, choice)
           /\ Within(maxTokens, maxPublished, maxInFlight)
    \/ Tick

Hub(conns, groups) ==
    \/ \E f \in calls : Resume(f)
    \/ \E websocket \in conns, connection_type \in groups :
           Connect(websocket, connection_type)

Faults(conns) ==
    \/ \E websocket \in conns : Break(websocket)
    \/ \E websocket \in conns : Disconnect(websocket)

\* The engine with an organizer console connecting: handlers are suspended in
\* their sends, and other handlers and timers run meanwhile.
Next ==
    \/ Engine(SmallRosters, {DefaultVoting}, {"for", "against", "other"},
              MaxTokens, MaxPublished, MaxInFlight)
    \/ Hub(Console, {"admin"})

Spec == Init /\ [][Next]_vars

\* No viewer is connected: no send happens, and every handler runs to its end.
NextSeq == Engine(Rosters, VotingInputs, ChoiceInputs, SeqMaxTokens, SeqMaxPublished, 0)

SpecSeq == Init /\ [][NextSeq]_vars

\* One meeting with a roster of three and no viewer.
NextExample ==
    Engine({RosterOfThree}, {DefaultVoting}, ChoiceInputs, ExMaxTokens, ExMaxPublished, 0)

SpecExample == Init /\ [][NextExample]_vars

\* No manual close and no vote: a window is closed by its timer alone.  The event loop runs
\* every coroutine that can run, so a due timer fires and a suspended handler is
\* resumed; and time passes.
NextLive ==
    \/ CreateSession(<<Member(1)>>)
    \/ \E session_id \in SessionIds :
           /\ StartVoting(session_id, DefaultVoting)
           /\ Within(LiveMaxTokens, LiveMaxPublished, LiveMaxInFlight)
    \/ \E tm \in timers : AutoEndVoting(tm)
    \/ Tick
    \/ Hub(Console, {"admin"})

SpecLive ==
    /\ Init
    /\ [][NextLive]_vars
    /\ WF_vars(Tick)
    /\ WF_vars(\E tm \in timers : AutoEndVoting(tm))
    /\ WF_vars(\E f \in calls : Resume(f))

\* Viewers of both kinds connect: an organizer console and a public display, or
\* two of one kind.  The clock stands still, so no timer fires and no token
\* expires: windows are closed by hand.
NextViewers ==
    \/ CreateSession(<<Member(1)>>)
    \/ \E session_id \in SessionIds :
           /\ StartVoting(session_id, DefaultVoting)
           /\ Within(ViewMaxTokens, ViewMaxPublished, ViewMaxInFlight)
    \/ \E session_id \in SessionIds :
           /\ EndVoting(session_id)
           /\ Within(ViewMaxTokens, ViewMaxPublished, ViewMaxInFlight)
    \/ \E token \in DOMAIN tokens, choice \in {"for", "against"} :
           /\ SubmitVote(token, choice)
           /\ Within(ViewMaxTokens, ViewMaxPublished, ViewMaxInFlight)
    \/ Hub(Conns, Groups)

SpecViewers == Init /\ [][NextViewers]_vars

\* Two organizer consoles, either of which may break: a send to it raises from
\* then on.  No websocket leaves on its own, and the clock stands still.
NextFaults ==
    \/ CreateSession(<<Member(1)>>)
    \/ \E session_id \in SessionIds :
           /\ StartVoting(session_id, DefaultVoting)
           /\ Within(FaultMaxTokens, FaultMaxPublished, FaultMaxInFlight)
    \/ \E session_id \in SessionIds :
           /\ EndVoting(session_id)
           /\ Within(FaultMaxTokens, FaultMaxPublished, FaultMaxInFlight)
    \/ \E token \in DOMAIN tokens :
           /\ SubmitVote(token, "for")
           /\ Within(FaultMaxTokens, FaultMaxPublished, FaultMaxInFlight)
    \/ Hub(Conns, {"admin"})
    \/ \E websocket \in Conns : Break(websocket)

SpecFaults == Init /\ [][NextFaults]_vars

\* Rosters of several sizes and windows of several durations, no viewer; votes
\* are cast for one choice only.
NextIssue == Engine(Rosters, VotingInputs, {"for"}, IssueMaxTokens, IssueMaxPublished, 0)

SpecIssue == Init /\ [][NextIssue]_vars

\* Windows of five minutes, of no time and of less than no time, no viewer.
NextDurations ==
    Engine(SmallRosters, DurationInputs, {"for"}, DurMaxTokens, DurMaxPublished, 0)

SpecDurations == Init /\ [][NextDurations]_vars

\* Two organizer consoles that come and go while at most one handler is
\* suspended in a broadcast.  No send fails, and the clock stands still.
NextChurn ==
    \/ CreateSession(<<Member(1)>>)
    \/ \E session_id \in SessionIds :
           /\ StartVoting(session_id, DefaultVoting)
           /\ Within(ChurnMaxTokens, ChurnMaxPublished, ChurnMaxInFlight)
    \/ \E session_id \in SessionIds :
           /\ EndVoting(session_id)
           /\ Within(ChurnMaxTokens, ChurnMaxPublished, ChurnMaxInFlight)
    \/ \E token \in DOMAIN tokens :
           /\ SubmitVote(token, "for")
           /\ Within(ChurnMaxTokens, ChurnMaxPublished, ChurnMaxInFlight)
    \/ Hub(Conns, {"admin"})
    \/ \E websocket \in Conns : Disconnect(websocket)

SpecChurn == Init /\ [][NextChurn]_vars

\* Two organizer consoles that stay, and up to two handlers suspended in their
\* broadcasts at a time.  No send fails, and the clock stands still.
NextOrder ==
    \/ CreateSession(<<Member(1)>>)
    \/ \E session_id \in SessionIds :
           /\ StartVoting(session_id, DefaultVoting)
           /\ Within(OrderMaxTokens, OrderMaxPublished, OrderMaxInFlight)
    \/ \E session_id \in SessionIds :
           /\ EndVoting(session_id)
           /\ Within(OrderMaxTokens, OrderMaxPublished, OrderMaxInFlight)
    \/ \E token \in DOMAIN tokens :
           /\ SubmitVote(token, "for")
           /\ Within(OrderMaxTokens, OrderMaxPublished, OrderMaxInFlight)
    \/ Hub(Conns, {"admin"})

SpecOrder == Init /\ [][NextOrder]_vars

----------------------------------------------------------------------------
(* submit_vote statement by statement: the handler between its append to the
   ledger (line 281) and its write of the used flag (line 284) *)

\* A handler that has run up to line 281 and has line 284 before it.  It is not
\* suspended: the event loop runs nothing else until it reaches an await.
AtLine284(f) == [k \in DOMAIN f \cup {"line"} |-> IF k = "line" THEN 284 ELSE f[k]]

Running == {f \in calls : "line" \in DOMAIN f}

\* Lines 248-281 of a submit_vote that passes its checks.
SubmitVoteAppend(token, choice) ==
    /\ Running = {}
    /\ SubmitError(token, choice) = ""
    /\ LET session_id == tokens[token].session_id
           resp == Response("submit_vote", session_id, token, choice, 200, "",
                            ZeroCount, << >>)
       IN  /\ votes' = RecordVote(votes, session_id,
                                  VoteRecord(session_id, token, choice))
           /\ calls' = calls \cup
                  {AtLine284(Frame(NewId, "submit_vote", session_id, << >>, resp, 0))}
    /\ UNCHANGED <<sessions, members, tokens, active_voting, active_connections,
                   wsState, inbox, timers, now, ret, published, accepted>>

\* Lines 284-302 of that submit_vote, up to its first send or to its return.
SubmitVoteMark(f) ==
    /\ f \in Running
    /\ LET session_id == f.sid
           current_votes == CountVotes(votes[session_id], ZeroCount)
           total_members == IF session_id \in DOMAIN members
                            THEN Len(members[session_id]) ELSE 0
       IN  /\ tokens' = MarkUsed(tokens, f.resp.token)
           /\ Continue(Frame(f.n, "submit_vote", session_id,
                             VoteReceived(session_id, current_votes, total_members),
                             f.resp, 0),
                       calls \ {f}, timers, accepted)
    /\ UNCHANGED <<sessions, members, votes, active_voting, wsState, now>>

\* The requests with submit_vote run statement by statement, no viewer, the clock
\* standing still: while a submit_vote is between its lines 281 and 284 nothing
\* else runs.
NextStatements ==
    \/ Running = {} /\ CreateSession(<<Member(1)>>)
    \/ \E session_id \in SessionIds :
           /\ Running = {}
           /\ StartVoting(session_id, DefaultVoting)
           /\ Within(StmtMaxTokens, StmtMaxPublished, StmtMaxInFlight)
    \/ \E session_id \in SessionIds :
           /\ Running = {}
           /\ EndVoting(session_id)
           /\ Within(StmtMaxTokens, StmtMaxPublished, StmtMaxInFlight)
    \/ \E token \in DOMAIN tokens \cup {UnknownToken}, choice \in {"for", "other"} :
           /\ Running = {}
           /\ SubmitError(token, choice) # ""
           /\ SubmitVote(token, choice)
    \/ \E token \in DOMAIN tokens, choice \in {"for", "other"} :
           /\ SubmitVoteAppend(token, choice)
           /\ Within(StmtMaxTokens, StmtMaxPublished, StmtMaxInFlight)
    \/ \E f \in calls : SubmitVoteMark(f)

SpecStatements == Init /\ [][NextStatements]_vars

\* The clock reaches the instant at which a sleeping timer wakes (line 200).
TickToTimer ==
    /\ Tick
    /\ \E tm \in timers : now' = tm.wake

\* Two meetings side by side, one member each, no viewer, the timers and the
\* clock: every handler runs to its end, and the handlers and timers of the two
\* sessions interleave in every order.
NextPair ==
    \/ CreateSessionIn(PairSessionIds, <<Member(1)>>)
    \/ \E session_id \in PairSessionIds :
           /\ StartVoting(session_id, DefaultVoting)
           /\ Within(PairMaxTokens, PairMaxPublished, PairMaxInFlight)
    \/ \E session_id \in PairSessionIds :
           /\ EndVoting(session_id)
           /\ Within(PairMaxTokens, PairMaxPublished, PairMaxInFlight)
    \/ \E tm \in timers :
           /\ AutoEndVoting(tm)
           /\ Within(PairMaxTokens, PairMaxPublished, PairMaxInFlight)
    \/ \E token \in DOMAIN tokens :
           /\ SubmitVote(token, "for")
           /\ Within(PairMaxTokens, PairMaxPublished, PairMaxInFlight)
    \/ TickToTimer

SpecPair == Init /\ [][NextPair]_vars

----------------------------------------------------------------------------
(* The claims *)

WindowActive(sid) ==
    sid \in DOMAIN active_voting /\ active_voting[sid].status = "active"

WindowCompleted(sid) ==
    sid \in DOMAIN active_voting /\ active_voting[sid].status = "completed"

\* The submit_vote calls presenting token t that are suspended on their way to success.
Winning(t) == {f \in calls : f.op = "submit_vote" /\ f.resp.token = t}

\* The votes of a ledger cast with a token.
VotesOf(ledger, t) == {i \in DOMAIN ledger : ledger[i].token_hash = hash_token(t)}

IsRejection(r, t, detail) ==
    r.op = "submit_vote" /\ r.token = t /\ r.code = 400 /\ r.detail = detail

\* C1: for one credential, the submit_vote calls that have returned success and
\* those suspended on their way to it are at most one; and a submit_vote that
\* presents a credential another call has won, while the window is active, is
\* rejected as AlreadyUsed.
C1_OneWinner ==
    /\ [](\A t \in DOMAIN tokens : accepted[t] + Cardinality(Winning(t)) <= 1)
    /\ [][\A t \in DOMAIN tokens, c \in ChoiceInputs :
            (/\ SubmitVote(t, c)
             /\ accepted[t] + Cardinality(Winning(t)) >= 1
             /\ WindowActive(tokens[t].session_id))
            => IsRejection(ret', t, "AlreadyUsed")]_vars

\* A call is rejected as AlreadyUsed while the winner of its credential is still
\* suspended in the broadcast of its vote, the window being active.
C1_Witness ==
    \E t \in DOMAIN tokens :
        /\ Winning(t) # {}
        /\ IsRejection(ret, t, "AlreadyUsed")
        /\ WindowActive(tokens[t].session_id)

\* C3 as claimed: a submit_vote processed while the window of the credential's
\* session is completed fails with InvalidState, whatever the credential's state
\* and the choice, and appends nothing to the ledger.
C3_AlwaysInvalidState ==
    [][\A t \in DOMAIN tokens, c \in ChoiceInputs :
          (SubmitVote(t, c) /\ WindowCompleted(tokens[t].session_id))
          => (IsRejection(ret', t, "InvalidState") /\ votes' = votes)]_vars

\* C3 as amended: such a submit_vote is rejected and appends nothing; the error is
\* AlreadyUsed for a redeemed credential, Expired for an unredeemed one past its
\* expiry, and InvalidState for an unredeemed, unexpired one.
C3_RejectedAfterClose ==
    [][\A t \in DOMAIN tokens, c \in ChoiceInputs :
          (SubmitVote(t, c) /\ WindowCompleted(tokens[t].session_id))
          => /\ votes' = votes
             /\ IsRejection(ret', t,
                            IF tokens[t].used THEN "AlreadyUsed"
                            ELSE IF now > tokens[t].expires_at THEN "Expired"
                            ELSE "InvalidState")]_vars

\* A redeemed credential was presented after the close and rejected as AlreadyUsed.
C3_Witness ==
    \E t \in DOMAIN tokens :
        /\ WindowCompleted(tokens[t].session_id)
        /\ accepted[t] = 1
        /\ IsRejection(ret, t, "AlreadyUsed")

\* C7: the ledger of a session never holds two votes with the same token hash; and
\* a submit_vote that presents a credential already redeemed with another choice is
\* rejected as AlreadyUsed and leaves the one vote of that credential as it was.
C7_OneVotePerHash ==
    /\ [](\A s \in DOMAIN votes : \A i, j \in DOMAIN votes[s] :
             votes[s][i].token_hash = votes[s][j].token_hash => i = j)
    /\ [][\A t \in DOMAIN tokens, c \in ChoiceInputs :
            LET s == tokens[t].session_id
            IN  (/\ SubmitVote(t, c)
                 /\ \E i \in VotesOf(votes[s], t) : votes[s][i].choice # c)
                => /\ IsRejection(ret', t, "AlreadyUsed")
                   /\ Cardinality(VotesOf(votes'[s], t)) = 1
                   /\ \A i \in VotesOf(votes[s], t) : votes'[s][i] = votes[s][i]]_vars

\* A credential redeemed with one choice was presented again with another and
\* rejected, and the ledger holds its one vote with the first choice.
C7_Witness ==
    \E t \in DOMAIN tokens :
        LET ledger == votes[tokens[t].session_id]
        IN  /\ accepted[t] = 1
            /\ IsRejection(ret, t, "AlreadyUsed")
            /\ Cardinality(VotesOf(ledger, t)) = 1
            /\ \A i \in VotesOf(ledger, t) : ledger[i].choice # ret.choice

\* C10: a submit_vote that returns an error (it neither returns success nor is
\* suspended on its way to it) leaves the ledger, the tokens and the windows as
\* they were, and publishes and sends nothing.
C10_ErrorsChangeNothing ==
    [][\A t \in DOMAIN tokens \cup {UnknownToken}, c \in ChoiceInputs :
          (SubmitVote(t, c) /\ calls' = calls /\ accepted' = accepted)
          => /\ ret'.op = "submit_vote" /\ ret'.token = t /\ ret'.code \in {400, 404}
             /\ ret'.detail \in {"NotFound", "AlreadyUsed", "Expired", "InvalidState",
                                 "InvalidChoice"}
             /\ UNCHANGED <<votes, tokens, active_voting, sessions>>
             /\ UNCHANGED <<published, inbox>>]_vars

\* An invalid choice was rejected: the credential is unredeemed, its window active.
C10_Witness ==
    \E t \in DOMAIN tokens :
        /\ IsRejection(ret, t, "InvalidChoice")
        /\ ~tokens[t].used
        /\ WindowActive(tokens[t].session_id)
        /\ votes[tokens[t].session_id] = << >>

\* The number of votes of a ledger for a choice.
Cast(ledger, choice) == Cardinality({i \in DOMAIN ledger : ledger[i].choice = choice})

\* The tokens of a session that are not redeemed.
Unredeemed(sid) == {t \in DOMAIN tokens : tokens[t].session_id = sid /\ ~tokens[t].used}

\* The ledger's tally plus one abstention for every unredeemed credential.
ExpectedResults(sid) ==
    [for |-> Cast(votes[sid], "for"),
     against |-> Cast(votes[sid], "against"),
     abstain |-> Cast(votes[sid], "abstain") + Cardinality(Unredeemed(sid))]

\* A step that closes the window of a session: a manual end_voting that is let
\* through, or a timer that finds the window active.
Closes(sid) ==
    \/ EndVoting(sid) /\ sid \in DOMAIN active_voting
    \/ \E tm \in timers : tm.sid = sid /\ AutoEndVoting(tm) /\ WindowActive(sid)

\* C2 as claimed: the results of a closed window add up to the size of the roster.
C2_ResultsSumToRoster ==
    \A sid \in DOMAIN active_voting :
        WindowCompleted(sid) =>
            TotalVotes(active_voting[sid].results) = Len(members[sid])

\* C4 as claimed: start_voting on a session whose window is active fails with
\* InvalidState and leaves the tokens and the window as they were.
C4_NoOpenWhileActive ==
    [][\A sid \in SessionIds, voting \in VotingInputs :
          (StartVoting(sid, voting) /\ WindowActive(sid))
          => /\ ret'.op = "start_voting" /\ ret'.code = 400
             /\ ret'.detail = "InvalidState"
             /\ tokens' = tokens
             /\ active_voting' = active_voting]_vars

\* C5 as claimed: an end_voting that follows a successful end_voting of the same
\* session, no other request in between, fails with InvalidState, and the results
\* and both statuses stay as the first call left them.
C5_SecondCloseFails ==
    [][\A sid \in SessionIds :
          (/\ ret.op = "end_voting" /\ ret.sid = sid /\ ret.code = 200
           /\ EndVoting(sid))
          => /\ ret'.op = "end_voting" /\ ret'.code = 400
             /\ ret'.detail = "InvalidState"
             /\ active_voting' = active_voting
             /\ sessions' = sessions]_vars

\* C6 as claimed: of a manual end_voting and the timer of the same window, the
\* one that comes second changes no state and publishes nothing: a manual
\* end_voting on a window that a timer has closed (the window is completed and
\* no request has returned since start_voting did), and a timer that finds its
\* window closed.
C6_SecondCloserIsNoOp ==
    [][\A sid \in SessionIds :
          /\ (/\ ret.op = "start_voting" /\ ret.sid = sid /\ ret.code = 200
              /\ WindowCompleted(sid)
              /\ EndVoting(sid))
             => UNCHANGED <<storageVars, published>>
          /\ \A tm \in timers :
                (tm.sid = sid /\ AutoEndVoting(tm) /\ WindowCompleted(sid))
                => UNCHANGED <<storageVars, published>>]_vars

\* C8: a close gives the window the results ExpectedResults of the state it runs
\* in, sets the window and the session to completed and publishes voting_ended
\* with those results to both groups; a manual close returns those results.
C8_CloseTallies ==
    [][\A sid \in SessionIds :
          Closes(sid) =>
              LET results == ExpectedResults(sid)
                  ended == Message("voting_ended", sid, results, TotalVotes(results),
                                   NoVoting)
              IN  /\ active_voting'[sid].status = "completed"
                  /\ active_voting'[sid].results = results
                  /\ sessions'[sid].status = "completed"
                  /\ \A g \in Groups : published'[g] = Append(published[g], ended)
                  /\ EndVoting(sid) =>
                         (ret'.op = "end_voting" /\ ret'.code = 200
                          /\ ret'.results = results)]_vars

\* The example: a roster of three, two vote for, one never votes, the timer fires
\* (no end_voting was called: the last response is that of a vote).
C8_Witness ==
    \E sid \in DOMAIN active_voting :
        /\ Len(members[sid]) = 3
        /\ WindowCompleted(sid)
        /\ active_voting[sid].results = [for |-> 2, against |-> 0, abstain |-> 1]
        /\ ret.op = "submit_vote" /\ ret.code = 200
        /\ timers = {}
        /\ \A g \in Groups :
               published[g][Len(published[g])].type = "voting_ended"
               /\ published[g][Len(published[g])].votes =
                      [for |-> 2, against |-> 0, abstain |-> 1]

\* C9: a window that is active is completed later on.
C9_ClosedByTimer ==
    \A sid \in SessionIds : WindowActive(sid) ~> WindowCompleted(sid)

\* A window was closed, and no end_voting is among the steps of SpecLive.
C9_Witness ==
    \E sid \in DOMAIN active_voting :
        /\ WindowCompleted(sid)
        /\ sessions[sid].status = "completed"
        /\ \A tm \in timers : tm.sid # sid

\* A credential that passes the checks that come before the choice: it exists, is
\* unredeemed and unexpired, and the window of its session is active.
Redeemable(t) ==
    /\ t \in DOMAIN tokens
    /\ ~tokens[t].used
    /\ now <= tokens[t].expires_at
    /\ WindowActive(tokens[t].session_id)

\* The step accepts the vote of credential t for choice c: the vote is appended,
\* the credential redeemed, and the call returns success or is suspended in the
\* broadcast that precedes its success.
Accepts(t, c) ==
    LET s == tokens[t].session_id
    IN  /\ votes'[s] = Append(votes[s], [session_id |-> s, choice |-> c,
                                         token_hash |-> hash_token(t)])
        /\ tokens'[t].used
        /\ \/ ret'.op = "submit_vote" /\ ret'.token = t /\ ret'.code = 200
              /\ accepted'[t] = accepted[t] + 1
           \/ \E f \in calls' \ calls :
                  f.op = "submit_vote" /\ f.resp.token = t /\ f.resp.code = 200

\* C11: a submit_vote that presents a redeemable credential with a choice outside
\* for, against, abstain fails with InvalidChoice and leaves the credential
\* unredeemed and the ledger as it was; and a submit_vote that presents a
\* redeemable credential with one of the three choices is accepted, whatever was
\* rejected before.
C11_InvalidChoiceKeepsCredential ==
    [][\A t \in DOMAIN tokens, c \in ChoiceInputs :
          (SubmitVote(t, c) /\ Redeemable(t))
          => IF c \in {"for", "against", "abstain"}
             THEN Accepts(t, c)
             ELSE /\ IsRejection(ret', t, "InvalidChoice")
                  /\ ~tokens'[t].used
                  /\ UNCHANGED <<tokens, votes>>]_vars

\* The last response is the InvalidChoice rejection of a credential, and a later
\* call with that credential was accepted: its vote is in the ledger and the call
\* is suspended in the broadcast of vote_received, the window still active.
C11_Witness ==
    \E t \in DOMAIN tokens :
        /\ IsRejection(ret, t, "InvalidChoice")
        /\ tokens[t].used
        /\ Winning(t) # {}
        /\ Cardinality(VotesOf(votes[tokens[t].session_id], t)) = 1
        /\ WindowActive(tokens[t].session_id)

\* The tally of a ledger.
Tally(ledger) ==
    [for |-> Cast(ledger, "for"), against |-> Cast(ledger, "against"),
     abstain |-> Cast(ledger, "abstain")]

\* The vote_received events of a log, in the order of the log.
VoteEvents(log) == SelectSeq(log, LAMBDA m : m.type = "vote_received")

\* C12: nothing published to the projector group is a vote_received and no
\* websocket of the projector group was sent one; and the vote_received events
\* published to the admin group are one per vote of the ledger, the k-th carrying
\* the tally of the ledger as the k-th vote left it.
C12_VoteReceivedAdminOnly ==
    /\ VoteEvents(published["projector"]) = << >>
    /\ \A w \in Conns :
           (\E i \in DOMAIN active_connections["projector"] :
                active_connections["projector"][i] = w)
           => VoteEvents(inbox[w]) = << >>
    /\ \A s \in DOMAIN votes :
           LET events == SelectSeq(VoteEvents(published["admin"]),
                                   LAMBDA m : m.sid = s)
           IN  /\ Len(events) = Len(votes[s])
               /\ \A k \in DOMAIN events :
                      events[k].votes = Tally(SubSeq(votes[s], 1, k))

\* A vote was accepted while a public display and an organizer console were
\* connected: the console was sent the vote_received, the display only the
\* voting_started.
C12_Witness ==
    \E w, v \in Conns :
        /\ active_connections["projector"] = <<w>>
        /\ active_connections["admin"] = <<v>>
        /\ Len(VoteEvents(inbox[v])) = 1
        /\ Len(inbox[w]) = 1
        /\ \E s \in DOMAIN votes : Len(votes[s]) = 1

\* The websockets of a list.
Members(lst) == {lst[i] : i \in DOMAIN lst}

\* The step resumes handler f and the loop of its broadcast ends: the index has
\* passed the end of the list.
LoopEnds(f) ==
    /\ f \in calls
    /\ f.idx >= Len(active_connections[Head(f.pend).group])
    /\ Resume(f)

\* C13 as claimed: when the loop of a broadcast ends, the websockets whose send
\* failed are out of the group; every other websocket that was in the group when
\* the loop began and still is was handed the message; and the handler goes on:
\* after its last broadcast the request returns its success.
C13_SendFailureIsLocal ==
    [][\A f \in calls :
          LoopEnds(f) =>
              LET g == Head(f.pend).group
              IN  /\ Members(active_connections'[g]) \cap f.disc = {}
                  /\ \A w \in Members(f.at_start) \cap Members(active_connections[g]) :
                         w \notin f.disc => w \in Members(f.sent)
                  /\ (Len(f.pend) = 1 /\ f.op # "auto_end_voting")
                         => (ret' = f.resp /\ ret'.code = 200)]_vars

\* C14: a start_voting on a session that exists keeps the tokens there are and
\* adds one for each member of the roster, in the order of the roster: unredeemed,
\* of that session, expiring duration minutes plus five minutes from now; it hands
\* these tokens to the caller, one per member; and it sets the window of the
\* session to active with its end duration minutes from now.
C14_OneCredentialPerMember ==
    [][\A sid \in DOMAIN sessions, voting \in VotingInputs :
          StartVoting(sid, voting) =>
              LET n == Len(members[sid])
                  seconds == voting.duration_minutes * 60
              IN  /\ Len(tokens') = Len(tokens) + n
                  /\ \A t \in DOMAIN tokens : tokens'[t] = tokens[t]
                  /\ \A k \in 1..n :
                         /\ tokens'[Len(tokens) + k] =
                                [session_id |-> sid,
                                 member_name |-> members[sid][k].name,
                                 used |-> FALSE,
                                 expires_at |-> now + seconds + 5 * 60]
                         /\ ret'.tokens[k].token = Len(tokens) + k
                         /\ ret'.tokens[k].member = members[sid][k].name
                  /\ ret'.op = "start_voting" /\ ret'.code = 200
                  /\ Len(ret'.tokens) = n
                  /\ active_voting'[sid].status = "active"
                  /\ active_voting'[sid].end_time = now + seconds]_vars

\* A window of ten minutes was opened at time 300 for a roster of three: three
\* tokens expiring at 1200, and the window ends at 900.
C14_Witness ==
    \E sid \in DOMAIN active_voting :
        /\ Len(members[sid]) = 3
        /\ Len(tokens) = 3
        /\ \A t \in DOMAIN tokens :
               tokens[t].session_id = sid /\ ~tokens[t].used
               /\ tokens[t].expires_at = 1200
        /\ active_voting[sid].status = "active"
        /\ active_voting[sid].end_time = 900
        /\ ret.op = "start_voting" /\ Len(ret.tokens) = 3

\* C15 as claimed: a create_session with an empty roster fails with InvalidRoster
\* and creates nothing; a create_session with members creates a session with
\* status created and an empty ledger; and no session has an empty roster.
C15_RosterNotEmpty ==
    /\ [](\A sid \in DOMAIN sessions : members[sid] # << >>)
    /\ [][\A roster \in Rosters :
            CreateSession(roster) =>
                IF roster = << >>
                THEN /\ ret'.op = "create_session" /\ ret'.code = 400
                     /\ ret'.detail = "InvalidRoster"
                     /\ UNCHANGED <<sessions, members, votes>>
                ELSE \E sid \in DOMAIN sessions' \ DOMAIN sessions :
                         /\ sessions'[sid].status = "created"
                         /\ members'[sid] = roster
                         /\ votes'[sid] = << >>]_vars

\* C16 as claimed: a start_voting with a duration below MIN_VOTING_DURATION_MINUTES
\* or above MAX_VOTING_DURATION_MINUTES is rejected: it returns no success, issues
\* no token, leaves the windows as they were and schedules no timer.
C16_DurationWithinBounds ==
    [][\A sid \in DOMAIN sessions, voting \in DurationInputs :
          (/\ StartVoting(sid, voting)
           /\ voting.duration_minutes \notin
                  MIN_VOTING_DURATION_MINUTES..MAX_VOTING_DURATION_MINUTES)
          => /\ ret'.op = "start_voting" /\ ret'.code # 200
             /\ UNCHANGED <<tokens, active_voting, timers>>]_vars

\* C17: a submit_vote that presents an unredeemed credential after its expiry
\* time is rejected as Expired and leaves the ledger and the tokens as they were,
\* whatever the state of the window and whether or not its timer has fired.
C17_ExpiredByTheClock ==
    [][\A t \in DOMAIN tokens, c \in ChoiceInputs :
          (SubmitVote(t, c) /\ ~tokens[t].used /\ now > tokens[t].expires_at)
          => /\ IsRejection(ret', t, "Expired")
             /\ UNCHANGED <<votes, tokens>>]_vars

\* A credential was rejected as Expired while its window is active, the timer of
\* the window not having fired.
C17_Witness ==
    \E t \in DOMAIN tokens :
        /\ IsRejection(ret, t, "Expired")
        /\ ~tokens[t].used
        /\ votes[tokens[t].session_id] = << >>
        /\ WindowActive(tokens[t].session_id)
        /\ \E tm \in timers : tm.sid = tokens[t].session_id /\ tm.wake < now

\* The state of the window of a session, in this state and in the next.
WindowState(sid) ==
    IF sid \notin DOMAIN active_voting THEN "NoWindow"
    ELSE IF active_voting[sid].status = "active" THEN "Active" ELSE "Completed"

WindowStateNext(sid) ==
    IF sid \notin DOMAIN active_voting' THEN "NoWindow"
    ELSE IF active_voting'[sid].status = "active" THEN "Active" ELSE "Completed"

\* C18 as claimed: the window of a session stays as it is or moves from NoWindow
\* to Active or from Active to Completed; and a session whose window is completed
\* keeps the status completed.
C18_CompletedIsTerminal ==
    [][\A sid \in SessionIds :
          /\ <<WindowState(sid), WindowStateNext(sid)>> \in
                 {<<"NoWindow", "NoWindow">>, <<"NoWindow", "Active">>,
                  <<"Active", "Active">>, <<"Active", "Completed">>,
                  <<"Completed", "Completed">>}
          /\ (WindowCompleted(sid) /\ sessions[sid].status = "completed")
                 => sessions'[sid].status = "completed"]_vars

\* How many times a loop handed its message to websocket w.
TimesSent(f, w) == Cardinality({i \in DOMAIN f.sent : f.sent[i] = w})

\* C19 as claimed: when the loop of a broadcast ends, every websocket that was in
\* the group when the loop began and still is was handed the message once,
\* whatever websockets joined or left the group meanwhile.
C19_StableMemberOnce ==
    [][\A f \in calls :
          LoopEnds(f) =>
              LET g == Head(f.pend).group
              IN  \A w \in Members(f.at_start) \cap Members(active_connections[g]) :
                      w \notin f.disc => TimesSent(f, w) = 1]_vars

\* The messages of a are messages of b, in the order of b.
RECURSIVE InOrderOf(_, _)
InOrderOf(a, b) ==
    IF a = << >> THEN TRUE
    ELSE IF b = << >> THEN FALSE
    ELSE IF Head(a) = Head(b) THEN InOrderOf(Tail(a), Tail(b))
    ELSE InOrderOf(a, Tail(b))

\* C20 as claimed: what a websocket of a group was sent is in the order in which
\* it was published to the group; and of two vote_received events that a websocket
\* was sent for a session, the later carries no smaller tally.
C20_PublishOrder ==
    \A g \in Groups : \A w \in Members(active_connections[g]) :
        /\ InOrderOf(inbox[w], published[g])
        /\ \A i, j \in DOMAIN inbox[w] :
               (/\ i < j
                /\ inbox[w][i].type = "vote_received"
                /\ inbox[w][j].type = "vote_received"
                /\ inbox[w][i].sid = inbox[w][j].sid)
               => TotalVotes(inbox[w][i].votes) <= TotalVotes(inbox[w][j].votes)

\* C21 as claimed: every vote of a ledger is the vote of a redeemed credential, in
\* every state a submit_vote passes through, the one between its append to the
\* ledger and its write of the used flag included.
C21_RedeemedBeforeAppend ==
    \A s \in DOMAIN votes : \A i \in DOMAIN votes[s] :
        \E t \in DOMAIN tokens :
            hash_token(t) = votes[s][i].token_hash /\ tokens[t].used

\* The credentials issued for the latest window of a session: start_voting mints
\* one per roster entry, so they are the last Len(members[sid]) of the session's
\* credentials in the order of issue.
LatestIssue(sid) ==
    {t \in DOMAIN tokens :
        /\ tokens[t].session_id = sid
        /\ Cardinality({u \in DOMAIN tokens : u > t /\ tokens[u].session_id = sid})
               < Len(members[sid])}

\* C22 as claimed: a submit_vote that presents an unredeemed, unexpired credential
\* while the window of its session is active accepts the vote only if the
\* credential was issued for that window; a credential issued for an earlier
\* window of the session is not accepted and nothing is appended to the ledger.
C22_OnlyInItsWindow ==
    [][\A t \in DOMAIN tokens, c \in ChoiceInputs :
          (SubmitVote(t, c) /\ Redeemable(t)
              /\ t \notin LatestIssue(tokens[t].session_id))
          => (~Accepts(t, c) /\ votes' = votes)]_vars

\* C23 as claimed: a timer that closes a window does so at or after the end time
\* of the window it closes.
C23_TimerClosesItsOwnWindow ==
    [][\A tm \in timers :
          (AutoEndVoting(tm) /\ WindowActive(tm.sid) /\ WindowCompleted(tm.sid)')
          => now >= active_voting[tm.sid].end_time]_vars

\* The status a session has by the state of its window.
StatusByWindow(sid) ==
    IF sid \notin DOMAIN active_voting THEN "created"
    ELSE IF active_voting[sid].status = "active" THEN "voting"
    ELSE IF active_voting[sid].status = "completed" THEN "completed"
    ELSE "none"

\* C24: in every state, those with a start_voting or an end_voting suspended in a
\* send included, a window belongs to a session, and the status of every session
\* is created exactly when it has no window, voting exactly when its window is
\* active and completed exactly when its window is completed.
C24_StatusAgreesWithWindow ==
    /\ DOMAIN active_voting \subseteq DOMAIN sessions
    /\ \A sid \in DOMAIN sessions : sessions[sid].status = StatusByWindow(sid)

\* An end_voting is suspended in a send of voting_ended, its window and its
\* session completed, after a start_voting and a vote.
C24_Witness ==
    \E f \in calls :
        /\ f.op = "end_voting"
        /\ WindowCompleted(f.sid)
        /\ sessions[f.sid].status = "completed"
        /\ votes[f.sid] # << >>

\* What the storage holds of a session: its ledger, its window, its status and its
\* credentials.
Holdings(sid) ==
    [ledger |-> IF sid \in DOMAIN votes THEN <<votes[sid]>> ELSE << >>,
     window |-> IF sid \in DOMAIN active_voting THEN <<active_voting[sid]>> ELSE << >>,
     status |-> IF sid \in DOMAIN sessions THEN <<sessions[sid].status>> ELSE << >>,
     credentials |-> {<<t, tokens[t]>> : t \in {u \in DOMAIN tokens :
                                                  tokens[u].session_id = sid}}]

\* A step of an operation on a session: its start_voting, its end_voting, its
\* timer, or a submit_vote with one of its credentials.
OperationOn(sid) ==
    \/ StartVoting(sid, DefaultVoting)
    \/ EndVoting(sid)
    \/ \E tm \in timers : tm.sid = sid /\ AutoEndVoting(tm)
    \/ \E t \in DOMAIN tokens, c \in ChoiceInputs :
           tokens[t].session_id = sid /\ SubmitVote(t, c)

\* C25: a step of an operation on one session leaves the ledger, the window, the
\* status and the credentials of every other session as they were; and a step
\* that closes the window of a session stores as its results the tally of that
\* session's ledger plus one abstention per unredeemed credential of that session.
C25_SessionsAreIndependent ==
    [][\A a \in PairSessionIds :
          /\ OperationOn(a) =>
                 \A b \in PairSessionIds \ {a} : Holdings(b)' = Holdings(b)
          /\ Closes(a) =>
                 /\ WindowCompleted(a)'
                 /\ active_voting'[a].results = ExpectedResults(a)]_vars

\* The window of one session was closed while another session had an active window
\* and an unredeemed credential, which the results of the first do not count.
C25_Witness ==
    \E a, b \in DOMAIN active_voting :
        /\ a # b
        /\ WindowCompleted(a)
        /\ WindowActive(b)
        /\ Unredeemed(b) # {}
        /\ \E i, j \in DOMAIN published["admin"] :
               /\ i < j
               /\ published["admin"][i].type = "voting_started"
               /\ published["admin"][i].sid = b
               /\ published["admin"][j].type = "voting_ended"
               /\ published["admin"][j].sid = a
        /\ TotalVotes(active_voting[a].results) = Len(members[a])

====
